---- MODULE Spec2Model ----
(***************************************************************************)
(* Model of organe.py: the interactive clinical summary built from a CSV   *)
(* catalog.  main() = input_organs (load_organs_menu, ask_tokens,          *)
(* select_items_for_kuerzel) ; replace_pathological ; build_summary_text.  *)
(* Python str values are TLA+ strings; a CSV row is a function from the    *)
(* header names to cell strings whose DOMAIN lacks the cells the row does  *)
(* not have (csv.DictReader: key absent, or value None).                   *)
(***************************************************************************)
EXTENDS Integers, Sequences, FiniteSets, TLC

VARIABLES pc, fs, csv_path, use_active, menu, selected, items, chosen, idx, left,
          normal, pathological, normal_src, patho_src, transcript, out

vars == <<pc, fs, csv_path, use_active, menu, selected, items, chosen, idx, left,
          normal, pathological, normal_src, patho_src, transcript, out>>

\* ------------------ bounds ------------------

MaxRows == 2

MaxAltRows == 1

\* ------------------ CONFIG ------------------

DEFAULT_CSV == "organe.csv"

ALT_CSV == "andere.csv"

HEADER_KUERZEL == "kuerzel"

HEADER_NUMMER == "item_order"

HEADER_TEXT == "text"

HEADER_ACTIVE == "active"

HEADER_BILATERAL == "bilateral"

HEADER_ORGAN == "organ"

TRUTHY == {"1", "true", "yes", "y", "ja", "j"}

LINKS == "LINKS"

RECHTS == "RECHTS"

\* Python None (Entry.side, a cell of a short row)
None == "<None>"

\* ------------------ str methods ------------------

\* the characters of the modelled strings, in code point order
Chars == "\t\n +,-0123456789ABCDEFGHIJKLMNOPQRSTUVWXYZ_abcdefghijklmnopqrstuvwxyz"

CharAt(s, i) == SubSeq(s, i, i)

CharCode(c) == CHOOSE i \in 1..Len(Chars) : CharAt(Chars, i) = c

UpperFirst == CharCode("A")

LowerFirst == CharCode("a")

IsSpace(c) == c \in {" ", "\t", "\n"}

IsDigit(c) == c \in {"0", "1", "2", "3", "4", "5", "6", "7", "8", "9"}

DigitVal(c) == CharCode(c) - CharCode("0")

RECURSIVE LStrip(_)
LStrip(s) ==
    IF Len(s) > 0 /\ IsSpace(CharAt(s, 1))
    THEN LStrip(SubSeq(s, 2, Len(s)))
    ELSE s

RECURSIVE RStrip(_)
RStrip(s) ==
    IF Len(s) > 0 /\ IsSpace(CharAt(s, Len(s)))
    THEN RStrip(SubSeq(s, 1, Len(s) - 1))
    ELSE s

Strip(s) == RStrip(LStrip(s))

LowerChar(c) ==
    LET k == CharCode(c)
    IN  IF k >= UpperFirst /\ k < UpperFirst + 26
        THEN CharAt(Chars, LowerFirst + (k - UpperFirst))
        ELSE c

RECURSIVE Lower(_)
Lower(s) ==
    IF Len(s) = 0 THEN ""
    ELSE LowerChar(CharAt(s, 1)) \o Lower(SubSeq(s, 2, Len(s)))

\* s.split(sep) for a one-character sep
RECURSIVE Split(_, _)
Split(s, sep) ==
    LET hits == {i \in 1..Len(s) : CharAt(s, i) = sep}
    IN  IF hits = {} THEN <<s>>
        ELSE LET i == CHOOSE h \in hits : \A g \in hits : h <= g
             IN  <<SubSeq(s, 1, i - 1)>> \o Split(SubSeq(s, i + 1, Len(s)), sep)

\* sep.join(parts)
RECURSIVE Join(_, _)
Join(sep, parts) ==
    IF Len(parts) = 0 THEN ""
    ELSE IF Len(parts) = 1 THEN parts[1]
    ELSE parts[1] \o sep \o Join(sep, Tail(parts))

\* string comparison a < b
RECURSIVE StrLess(_, _)
StrLess(a, b) ==
    IF Len(b) = 0 THEN FALSE
    ELSE IF Len(a) = 0 THEN TRUE
    ELSE IF CharAt(a, 1) = CharAt(b, 1)
         THEN StrLess(SubSeq(a, 2, Len(a)), SubSeq(b, 2, Len(b)))
         ELSE CharCode(CharAt(a, 1)) < CharCode(CharAt(b, 1))

RECURSIVE DigitsVal(_, _)
DigitsVal(s, acc) ==
    IF Len(s) = 0 THEN acc
    ELSE DigitsVal(SubSeq(s, 2, Len(s)), 10 * acc + DigitVal(CharAt(s, 1)))

\* int(s): surrounding whitespace, an optional sign, at least one digit
\* ok = FALSE is ValueError
ParseInt(s) ==
    LET t == Strip(s)
        signed == Len(t) > 0 /\ CharAt(t, 1) \in {"+", "-"}
        digits == IF signed THEN SubSeq(t, 2, Len(t)) ELSE t
    IN  IF Len(digits) > 0 /\ \A i \in 1..Len(digits) : IsDigit(CharAt(digits, i))
        THEN [ok |-> TRUE,
              val |-> IF signed /\ CharAt(t, 1) = "-"
                      THEN 0 - DigitsVal(digits, 0) ELSE DigitsVal(digits, 0)]
        ELSE [ok |-> FALSE, val |-> 0]

\* ------------------ DATA MODEL ------------------

Item(kuerzel, nummer, text, bilateral, active) ==
    [kuerzel |-> kuerzel, nummer |-> nummer, text |-> text,
     bilateral |-> bilateral, active |-> active]

Entry(side, text) == [side |-> side, text |-> text]

\* ------------------ INPUT HELPERS ------------------

ask_tokens(line) ==
    LET parts == Split(line, ",")
        stripped == [i \in 1..Len(parts) |-> Strip(parts[i])]
    IN  SelectSeq(stripped, LAMBDA p : p # "")

ask_numbers(line) ==
    LET tokens == ask_tokens(line)
    IN  {ParseInt(tokens[i]).val : i \in {j \in 1..Len(tokens) : ParseInt(tokens[j]).ok}}

\* row.get(key, dflt)
row_get(row, key, dflt) == IF key \in DOMAIN row THEN row[key] ELSE dflt

parse_bool(value, default) ==
    IF value = None THEN default
    ELSE Lower(Strip(value)) \in TRUTHY

\* ------------------ CSV READING ------------------

\* the file both readers open (DEFAULT_CSV.open), whatever csv_path is
OpenedPath(path) == DEFAULT_CSV

\* row[key].strip() raises: KeyError (no such column) or AttributeError (None)
CellRaises(row, key) == key \notin DOMAIN row \/ row[key] = None

\* one iteration of the loop of iter_items_from_csv: the row raises or yields
RowRaises(row) ==
    \/ CellRaises(row, HEADER_KUERZEL)
    \/ CellRaises(row, HEADER_NUMMER)
    \/ ~ParseInt(Strip(row[HEADER_NUMMER])).ok
    \/ CellRaises(row, HEADER_TEXT)

RowItem(row, include_active) ==
    Item(Lower(Strip(row[HEADER_KUERZEL])),
         ParseInt(Strip(row[HEADER_NUMMER])).val,
         Strip(row[HEADER_TEXT]),
         parse_bool(row_get(row, HEADER_BILATERAL, ""), FALSE),
         IF include_active
         THEN parse_bool(row_get(row, HEADER_ACTIVE, "1"), TRUE)
         ELSE TRUE)

\* the generator: the Items yielded before the first row that raises, and
\* whether it raised
RECURSIVE IterRows(_, _)
IterRows(rows, include_active) ==
    IF Len(rows) = 0 THEN [raised |-> FALSE, items |-> <<>>]
    ELSE IF RowRaises(Head(rows)) THEN [raised |-> TRUE, items |-> <<>>]
    ELSE LET rest == IterRows(Tail(rows), include_active)
         IN  [raised |-> rest.raised,
              items |-> <<RowItem(Head(rows), include_active)>> \o rest.items]

\* csv.DictReader: one dict per line, keyed by the header; a line shorter than
\* the header gets None for the cells it lacks
DictRow(header, cells) ==
    [k \in {header[i] : i \in 1..Len(header)} |->
        LET i == CHOOSE j \in 1..Len(header) : header[j] = k
        IN  IF i <= Len(cells) THEN cells[i] ELSE None]

DictReader(f) == [n \in 1..Len(f.lines) |-> DictRow(f.header, f.lines[n])]

iter_items_from_csv(path, include_active) ==
    IterRows(DictReader(fs[OpenedPath(path)]), include_active)

\* sorted(pairs, key=lambda x: (x[0].lower(), x[1]))
PairLess(a, b) ==
    \/ StrLess(Lower(a[1]), Lower(b[1]))
    \/ Lower(a[1]) = Lower(b[1]) /\ StrLess(a[2], b[2])

\* insertion of x after every element that is not greater than it
RECURSIVE InsertPair(_, _)
InsertPair(x, seq) ==
    IF Len(seq) = 0 THEN <<x>>
    ELSE IF PairLess(x, Head(seq)) THEN <<x>> \o seq
    ELSE <<Head(seq)>> \o InsertPair(x, Tail(seq))

RECURSIVE SortPairs(_)
SortPairs(seq) ==
    IF Len(seq) = 0 THEN <<>>
    ELSE InsertPair(seq[Len(seq)], SortPairs(SubSeq(seq, 1, Len(seq) - 1)))

\* pairs of the rows, first occurrence order (the set removes duplicates)
RECURSIVE MenuPairs(_, _)
MenuPairs(rows, seen) ==
    IF Len(rows) = 0 THEN <<>>
    ELSE LET row == Head(rows)
             o == row_get(row, HEADER_ORGAN, None)
             k == row_get(row, HEADER_KUERZEL, None)
             organ == Strip(IF o = None THEN "" ELSE o)
             kuerzel == Lower(Strip(IF k = None THEN "" ELSE k))
             pair == <<organ, kuerzel>>
         IN  IF organ # "" /\ kuerzel # "" /\ pair \notin seen
             THEN <<pair>> \o MenuPairs(Tail(rows), seen \cup {pair})
             ELSE MenuPairs(Tail(rows), seen)

load_organs_menu(path) ==
    SortPairs(MenuPairs(DictReader(fs[OpenedPath(path)]), {}))

\* sorted(items, key=lambda it: it.nummer), stable
RECURSIVE InsertItem(_, _)
InsertItem(x, seq) ==
    IF Len(seq) = 0 THEN <<x>>
    ELSE IF x.nummer < Head(seq).nummer THEN <<x>> \o seq
    ELSE <<Head(seq)>> \o InsertItem(x, Tail(seq))

\* the selection returned in file order
SortByNummer_unsorted(seq) == seq

RECURSIVE SortByNummer(_)
SortByNummer(seq) ==
    IF Len(seq) = 0 THEN <<>>
    ELSE InsertItem(seq[Len(seq)], SortByNummer(SubSeq(seq, 1, Len(seq) - 1)))

\* rows that raise are skipped instead of ending the load
select_items_skipping(selected_kuerzel, path, active_only) ==
    LET wanted == {Lower(Strip(selected_kuerzel[i])) :
                     i \in {j \in 1..Len(selected_kuerzel) : Strip(selected_kuerzel[j]) # ""}}
        rows == DictReader(fs[OpenedPath(path)])
        it == IterRows(SelectSeq(rows, LAMBDA row : ~RowRaises(row)), active_only)
        kept == SelectSeq(it.items,
                          LAMBDA item : item.kuerzel \in wanted
                                        /\ (~active_only \/ item.active))
    IN  [raised |-> FALSE, items |-> SortByNummer(kept)]

\* raised = TRUE: the exception of the generator leaves the comprehension
select_items_for_kuerzel(selected_kuerzel, path, active_only) ==
    LET wanted == {Lower(Strip(selected_kuerzel[i])) :
                     i \in {j \in 1..Len(selected_kuerzel) : Strip(selected_kuerzel[j]) # ""}}
        it == iter_items_from_csv(path, active_only)
        kept == SelectSeq(it.items,
                          LAMBDA item : item.kuerzel \in wanted
                                        /\ (~active_only \/ item.active))
    IN  IF it.raised THEN [raised |-> TRUE, items |-> <<>>]
        ELSE [raised |-> FALSE, items |-> SortByNummer(kept)]

\* ------------------ MAIN WORKFLOW ------------------

\* the answer taken as typed
ReadAnswer_raw(raw) == raw

\* input(prompt).strip() of the three override questions
ReadAnswer(raw) == Strip(raw)

\* the Pathological Entry made with the item's text
AppendAnswered_text(st, side, answer, j) ==
    IF answer # ""
    THEN [st EXCEPT !.pathological = Append(@, Entry(side, items[j].text)),
                    !.patho_src = Append(@, j)]
    ELSE [st EXCEPT !.normal = Append(@, Entry(side, items[j].text)),
                    !.normal_src = Append(@, j)]

\* the Normal Entry made for an answered side too
AppendAnswered_both(st, side, answer, j) ==
    IF answer # ""
    THEN [st EXCEPT !.pathological = Append(@, Entry(side, answer)),
                    !.patho_src = Append(@, j),
                    !.normal = Append(@, Entry(side, items[j].text)),
                    !.normal_src = Append(@, j)]
    ELSE [st EXCEPT !.normal = Append(@, Entry(side, items[j].text)),
                    !.normal_src = Append(@, j)]

\* (pathological if answer else normal).append(Entry(side, answer or item.text))
\* st holds the two lists and, for each Entry, the position in items of the
\* Item it was made from
AppendAnswered(st, side, answer, j) ==
    IF answer # ""
    THEN [st EXCEPT !.pathological = Append(@, Entry(side, answer)),
                    !.patho_src = Append(@, j)]
    ELSE [st EXCEPT !.normal = Append(@, Entry(side, items[j].text)),
                    !.normal_src = Append(@, j)]

\* the default Entry appended to the wrong list
AppendNormal_patho(st, side, j) ==
    [st EXCEPT !.pathological = Append(@, Entry(side, items[j].text)),
               !.patho_src = Append(@, j)]

\* normal.append(Entry(side, item.text))
AppendNormal(st, side, j) ==
    [st EXCEPT !.normal = Append(@, Entry(side, items[j].text)),
               !.normal_src = Append(@, j)]

Lists == [normal |-> normal, pathological |-> pathological,
          normal_src |-> normal_src, patho_src |-> patho_src]

SetLists(st) ==
    /\ normal' = st.normal
    /\ pathological' = st.pathological
    /\ normal_src' = st.normal_src
    /\ patho_src' = st.patho_src

\* d.get(k) of the defaultdict: the texts of side k, empty when there are none
BucketGet(d, k) == IF k \in DOMAIN d THEN d[k] ELSE <<>>

RECURSIVE bucket(_)
bucket(entries) ==
    IF Len(entries) = 0 THEN <<>>
    ELSE LET d == bucket(SubSeq(entries, 1, Len(entries) - 1))
             e == entries[Len(entries)]
         IN  [k \in DOMAIN d \cup {e.side} |->
                IF k = e.side THEN Append(BucketGet(d, k), e.text) ELSE d[k]]

patho_parts(pn) ==
    (IF BucketGet(pn, LINKS) # <<>>
     THEN <<"LINKS " \o Join(", ", pn[LINKS])>> ELSE <<>>)
    \o (IF BucketGet(pn, RECHTS) # <<>>
        THEN <<"RECHTS " \o Join(", ", pn[RECHTS])>> ELSE <<>>)
    \o (IF BucketGet(pn, None) # <<>>
        THEN <<Join(", ", pn[None])>> ELSE <<>>)

\* the parts of the Normal line without parentheses
normal_parts_plain(nn) ==
    (IF BucketGet(nn, LINKS) # <<>>
     THEN <<"LINKS " \o Join(", ", nn[LINKS])>> ELSE <<>>)
    \o (IF BucketGet(nn, RECHTS) # <<>>
        THEN <<"RECHTS " \o Join(", ", nn[RECHTS])>> ELSE <<>>)
    \o (IF BucketGet(nn, None) # <<>>
        THEN <<Join(", ", nn[None])>> ELSE <<>>)

normal_parts(nn) ==
    (IF BucketGet(nn, LINKS) # <<>>
     THEN <<"LINKS (" \o Join(", ", nn[LINKS]) \o ")">> ELSE <<>>)
    \o (IF BucketGet(nn, RECHTS) # <<>>
        THEN <<"RECHTS (" \o Join(", ", nn[RECHTS]) \o ")">> ELSE <<>>)
    \o (IF BucketGet(nn, None) # <<>>
        THEN <<Join(", ", nn[None])>> ELSE <<>>)

\* the separator of the Normal line
patho_line_semicolon(pp) == IF pp # <<>> THEN Join("; ", pp) ELSE "-"

patho_line(pp) == IF pp # <<>> THEN Join(" ", pp) ELSE "-"

normal_line(np) == IF np # <<>> THEN Join("; ", np) ELSE "-"

build_summary_text(n, p) ==
    "Pathologisch: " \o patho_line(patho_parts(bucket(p)))
    \o "\nNormal: " \o normal_line(normal_parts(bucket(n)))

\* ------------------ inputs ------------------

ColumnsFull == <<HEADER_KUERZEL, HEADER_NUMMER, HEADER_TEXT,
                 HEADER_BILATERAL, HEADER_ACTIVE, HEADER_ORGAN>>

ColumnsMin == <<HEADER_ORGAN, HEADER_KUERZEL, HEADER_NUMMER, HEADER_TEXT>>

ColumnsNoText == <<HEADER_KUERZEL, HEADER_NUMMER>>

SeqsUpTo(S, n) == UNION {[1..k -> S] : k \in 0..n}

Files(header, pool, n) == {[header |-> header, lines |-> l] : l \in SeqsUpTo(pool, n)}

\* well-formed lines under ColumnsFull; the last one is short
GoodLines ==
    { <<"h", "1", "A", "0", "1", "Herz">>,
      <<" L", "2 ", " B ", "Ja", "1", "Lunge">>,
      <<"l", "1", "A", "1", "0", "Lunge">>,
      <<"h", "2", "B">> }

MinLines == { <<"Herz", "h", "1", "A">>, <<"Niere", "n", "2", "B">> }

\* lines under ColumnsFull for the loader: malformed item_order, no text,
\* no item_order, empty kuerzel and text
LoadLines ==
    { <<"h", "1", "A", "0", "1", "Herz">>,
      <<" L", "2 ", " B ", "Ja", "1", "Lunge">>,
      <<"h", "x1", "A", "0", "1", "Herz">>,
      <<"n", "3">>,
      <<"o">>,
      <<"", "4", "", "1", "1", "">> }

\* under ColumnsMin the second line has no kuerzel
MinLoadLines == { <<"Niere", "n", "2", "B">>, <<"Herz">> }

AltLines == { <<"m", "5", "C", "0", "1", "Magen">>,
              <<"h", "1", "A", "0", "1", "Herz">> }

KuerzelLines == {"", "h", "H, l", " l ,,n"}

NumberLines == {"", "1", "2, x", "1,2,7"}

AnswerLines == {"", " ", " x ", "y"}

EmptyFile == [header |-> ColumnsFull, lines |-> <<>>]

\* ------------------ actions ------------------

InitRest ==
    /\ pc = "start"
    /\ menu = <<>>
    /\ selected = <<>>
    /\ items = <<>>
    /\ chosen = {}
    /\ idx = 0
    /\ left = ""
    /\ normal = <<>>
    /\ pathological = <<>>
    /\ normal_src = <<>>
    /\ patho_src = <<>>
    /\ transcript = <<>>
    /\ out = ""

\* a run without --csv over a well-formed catalog
Init ==
    /\ csv_path = DEFAULT_CSV
    /\ use_active \in BOOLEAN
    /\ \E f \in Files(ColumnsFull, GoodLines, MaxRows)
              \cup Files(ColumnsMin, MinLines, MaxRows) :
          fs = [p \in {DEFAULT_CSV, ALT_CSV} |-> IF p = DEFAULT_CSV THEN f ELSE EmptyFile]
    /\ InitRest

\* any --csv, catalogs with faulty lines
InitLoad ==
    /\ csv_path \in {DEFAULT_CSV, ALT_CSV}
    /\ use_active \in BOOLEAN
    /\ \E f \in Files(ColumnsFull, LoadLines, MaxRows)
              \cup Files(ColumnsMin, MinLoadLines, MaxRows)
              \cup Files(ColumnsNoText, {<<"h", "1">>}, MaxRows),
          g \in Files(ColumnsFull, AltLines, MaxAltRows) :
          fs = [p \in {DEFAULT_CSV, ALT_CSV} |-> IF p = DEFAULT_CSV THEN f ELSE g]
    /\ InitRest

\* input_organs up to the question: load_organs_menu, print_organs_menu
LoadOrgansMenu ==
    /\ pc = "start"
    /\ menu' = load_organs_menu(csv_path)
    /\ pc' = "ask_kuerzel"
    /\ UNCHANGED <<fs, csv_path, use_active, selected, items, chosen, idx, left,
                   normal, pathological, normal_src, patho_src, transcript, out>>

\* input_organs from the answer on: ask_tokens, select_items_for_kuerzel,
\* show_options; an exception ends main
InputOrgans ==
    /\ pc = "ask_kuerzel"
    /\ \E line \in KuerzelLines :
         LET tokens == ask_tokens(line)
             res == select_items_for_kuerzel(tokens, csv_path, use_active)
         IN  /\ selected' = tokens
             /\ IF res.raised
                THEN pc' = "error" /\ UNCHANGED items
                ELSE pc' = "ask_numbers" /\ items' = res.items
    /\ UNCHANGED <<fs, csv_path, use_active, menu, chosen, idx, left, normal,
                   pathological, normal_src, patho_src, transcript, out>>

\* replace_pathological up to the loop
AskNumbers ==
    /\ pc = "ask_numbers"
    /\ \E line \in NumberLines : chosen' = ask_numbers(line)
    /\ normal' = <<>>
    /\ pathological' = <<>>
    /\ normal_src' = <<>>
    /\ patho_src' = <<>>
    /\ idx' = 1
    /\ pc' = "loop"
    /\ UNCHANGED <<fs, csv_path, use_active, menu, selected, items, left, transcript, out>>

InLoop == pc = "loop" /\ idx <= Len(items)

\* every item taken as chosen once a number was given
is_chosen_any == chosen # {}

is_chosen == items[idx].nummer \in chosen

\* the first question of a chosen bilateral item
AskLeft ==
    /\ InLoop /\ is_chosen /\ items[idx].bilateral
    /\ \E raw \in AnswerLines :
         /\ left' = ReadAnswer(raw)
         /\ transcript' = Append(transcript, [item |-> idx, side |-> LINKS, raw |-> raw])
    /\ pc' = "ask_right"
    /\ UNCHANGED <<fs, csv_path, use_active, menu, selected, items, chosen, idx, normal,
                   pathological, normal_src, patho_src, out>>

\* its second question, and the two appends
AskRight ==
    /\ pc = "ask_right"
    /\ \E raw \in AnswerLines :
         LET right == ReadAnswer(raw)
         IN  /\ transcript' = Append(transcript, [item |-> idx, side |-> RECHTS, raw |-> raw])
             /\ SetLists(AppendAnswered(AppendAnswered(Lists, LINKS, left, idx),
                                        RECHTS, right, idx))
    /\ left' = ""
    /\ idx' = idx + 1
    /\ pc' = "loop"
    /\ UNCHANGED <<fs, csv_path, use_active, menu, selected, items, chosen, out>>

\* a chosen item that is not bilateral
AskSingle ==
    /\ InLoop /\ is_chosen /\ ~items[idx].bilateral
    /\ \E raw \in AnswerLines :
         LET new_text == ReadAnswer(raw)
         IN  /\ transcript' = Append(transcript, [item |-> idx, side |-> None, raw |-> raw])
             /\ SetLists(AppendAnswered(Lists, None, new_text, idx))
    /\ idx' = idx + 1
    /\ UNCHANGED <<pc, fs, csv_path, use_active, menu, selected, items, chosen, left, out>>

\* an item that is not chosen
NotChosen ==
    /\ InLoop /\ ~is_chosen
    /\ IF items[idx].bilateral
       THEN SetLists(AppendNormal(AppendNormal(Lists, LINKS, idx), RECHTS, idx))
       ELSE SetLists(AppendNormal(Lists, None, idx))
    /\ idx' = idx + 1
    /\ UNCHANGED <<pc, fs, csv_path, use_active, menu, selected, items, chosen, left,
                   transcript, out>>

\* return normal, pathological; build_summary_text; print
Summarize ==
    /\ pc = "loop" /\ idx > Len(items)
    /\ out' = build_summary_text(normal, pathological)
    /\ pc' = "done"
    /\ UNCHANGED <<fs, csv_path, use_active, menu, selected, items, chosen, idx, left,
                   normal, pathological, normal_src, patho_src, transcript>>

Next ==
    \/ LoadOrgansMenu
    \/ InputOrgans
    \/ AskNumbers
    \/ AskLeft
    \/ AskRight
    \/ AskSingle
    \/ NotChosen
    \/ Summarize

Spec == Init /\ [][Next]_vars

SpecLoad == InitLoad /\ [][Next]_vars

TypeOK ==
    /\ pc \in {"start", "ask_kuerzel", "ask_numbers", "loop", "ask_right", "done", "error"}
    /\ Len(normal) = Len(normal_src)
    /\ Len(pathological) = Len(patho_src)

\* ------------------ vocabulary of the properties ------------------

\* item j of items has been through its loop iteration
Handled(j) == pc \in {"loop", "ask_right", "done"} /\ j \in 1..Len(items) /\ j < idx

Affected(j) == items[j].nummer \in chosen

SidesOf(j) == IF items[j].bilateral THEN {LINKS, RECHTS} ELSE {None}

\* positions in a list of the Entries made from side s of item j
InNormal(j, s) == {k \in 1..Len(normal) : normal_src[k] = j /\ normal[k].side = s}

InPatho(j, s) == {k \in 1..Len(pathological) : patho_src[k] = j /\ pathological[k].side = s}

\* positions in the transcript of the questions about side s of item j
Asked(j, s) == {k \in 1..Len(transcript) : transcript[k].item = j /\ transcript[k].side = s}

OnlySpaces(raw) == \A i \in 1..Len(raw) : CharAt(raw, i) \in {" ", "\t"}

\* the answer the override question returns: the line read, without the
\* whitespace around it
Override(j, s) ==
    LET raw == transcript[CHOOSE k \in Asked(j, s) : TRUE].raw
        first == CHOOSE a \in 1..(Len(raw) + 1) :
                    /\ \A i \in 1..(a - 1) : CharAt(raw, i) \in {" ", "\t"}
                    /\ a <= Len(raw) => CharAt(raw, a) \notin {" ", "\t"}
        last == CHOOSE b \in 0..Len(raw) :
                    /\ \A i \in (b + 1)..Len(raw) : CharAt(raw, i) \in {" ", "\t"}
                    /\ b >= 1 => CharAt(raw, b) \notin {" ", "\t"}
    IN  IF OnlySpaces(raw) THEN "" ELSE SubSeq(raw, first, last)

Bilaterals == {j \in 1..Len(items) : items[j].bilateral}

\* C1: every side of every affected item goes to Pathological with the
\* override text when the answer for that side is non-empty, and to Normal
\* with the item's text when it is empty, each side by its own answer.
C1_AffectedSideFollowsAnswer ==
    \A j \in 1..Len(items) :
        Handled(j) /\ Affected(j) =>
            \A s \in SidesOf(j) :
                /\ Cardinality(Asked(j, s)) = 1
                /\ IF Override(j, s) # ""
                   THEN /\ \E k \in InPatho(j, s) :
                             pathological[k] = Entry(s, Override(j, s))
                        /\ InNormal(j, s) = {}
                   ELSE /\ \E k \in InNormal(j, s) :
                             normal[k] = Entry(s, items[j].text)
                        /\ InPatho(j, s) = {}

\* a bilateral affected item answered on the left only, as in the example
C1_Witness ==
    /\ pc = "done"
    /\ \E j \in 1..Len(items) :
          /\ Affected(j) /\ items[j].bilateral
          /\ Override(j, LINKS) # "" /\ Override(j, RECHTS) = ""
          /\ InPatho(j, LINKS) # {} /\ InNormal(j, RECHTS) # {}

\* C2: a handled item has exactly one Entry per side it has (LINKS and
\* RECHTS if bilateral, None otherwise), counted over both lists, so at the
\* return the lists hold (non-bilateral items) + 2 * (bilateral items) Entries.
C2_OneEntryPerSide ==
    /\ Len(normal) = Len(normal_src) /\ Len(pathological) = Len(patho_src)
    /\ \A j \in 1..Len(items) :
          Handled(j) =>
              \A s \in {LINKS, RECHTS, None} :
                  Cardinality(InNormal(j, s)) + Cardinality(InPatho(j, s))
                      = IF s \in SidesOf(j) THEN 1 ELSE 0
    /\ \A k \in 1..Len(normal) : Handled(normal_src[k])
    /\ \A k \in 1..Len(pathological) : Handled(patho_src[k])
    /\ pc = "done" =>
          Len(normal) + Len(pathological)
              = (Len(items) - Cardinality(Bilaterals)) + 2 * Cardinality(Bilaterals)

\* a bilateral and a non-bilateral item, Entries in both lists
C2_Witness ==
    /\ pc = "done"
    /\ Bilaterals # {} /\ Cardinality(Bilaterals) < Len(items)
    /\ normal # <<>> /\ pathological # <<>>

\* C3: an item that is not affected has all its Entries in Normal with its
\* default text, none in Pathological, and no question is asked for it.
C3_UnaffectedStaysNormal ==
    \A j \in 1..Len(items) :
        Handled(j) /\ ~Affected(j) =>
            /\ \A s \in SidesOf(j) :
                  \E k \in InNormal(j, s) : normal[k].text = items[j].text
            /\ \A k \in 1..Len(normal) :
                  normal_src[k] = j => normal[k].text = items[j].text
            /\ \A k \in 1..Len(pathological) : patho_src[k] # j
            /\ \A k \in 1..Len(transcript) : transcript[k].item # j

\* an unaffected bilateral item next to an affected one
C3_Witness ==
    /\ pc = "done"
    /\ \E j \in Bilaterals : ~Affected(j)
    /\ \E j \in 1..Len(items) : Affected(j)
    /\ chosen # {}

\* the Entries of a list follow the ascending nummer of their Items, LINKS
\* before RECHTS for one Item
Ordered(list, src) ==
    \A k1, k2 \in 1..Len(list) :
        k1 < k2 =>
            /\ items[src[k1]].nummer <= items[src[k2]].nummer
            /\ src[k1] = src[k2] => list[k1].side = LINKS /\ list[k2].side = RECHTS

\* C4: in each list the Entries follow the ascending nummer of their Items,
\* and the LINKS Entry of an Item precedes its RECHTS Entry.
C4_EntriesInNummerOrder ==
    /\ Ordered(normal, normal_src)
    /\ Ordered(pathological, patho_src)

\* the catalog lists the larger nummer first, both Items are selected
C4_Witness ==
    /\ pc = "done"
    /\ Len(items) = 2 /\ items[1].nummer < items[2].nummer
    /\ LET rows == DictReader(fs[DEFAULT_CSV])
       IN  /\ Len(rows) = 2
           /\ Lower(Strip(rows[1][HEADER_KUERZEL])) = items[2].kuerzel
           /\ Strip(rows[1][HEADER_TEXT]) = items[2].text
           /\ items[1].kuerzel # items[2].kuerzel
    /\ Len(normal) >= 2 /\ normal_src[1] # normal_src[Len(normal)]

\* the questions of the first n items, in the order they are due
RECURSIVE Due(_)
Due(n) ==
    IF n = 0 THEN <<>>
    ELSE Due(n - 1) \o
         (IF ~Affected(n) THEN <<>>
          ELSE IF items[n].bilateral THEN << <<n, LINKS>>, <<n, RECHTS>> >>
          ELSE << <<n, None>> >>)

Questions == [k \in 1..Len(transcript) |-> <<transcript[k].item, transcript[k].side>>]

\* C5: the questions asked so far are exactly those of the items handled so
\* far, in item order, LINKS then RECHTS for an affected bilateral item, one
\* for an affected non-bilateral item, none for any other item.
C5_QuestionsInItemOrder ==
    /\ pc \in {"start", "ask_kuerzel", "ask_numbers", "error"} => transcript = <<>>
    /\ pc = "loop" => Questions = Due(idx - 1)
    /\ pc = "ask_right" => Questions = Due(idx - 1) \o << <<idx, LINKS>> >>
    /\ pc = "done" =>
          /\ Questions = Due(Len(items))
          /\ Len(transcript) =
                Cardinality({j \in 1..Len(items) : Affected(j) /\ ~items[j].bilateral})
                + 2 * Cardinality({j \in 1..Len(items) : Affected(j) /\ items[j].bilateral})

\* the one question of a non-bilateral item after the two of a bilateral one
C5_Witness ==
    /\ pc = "done"
    /\ Len(items) = 2
    /\ Questions = << <<1, LINKS>>, <<1, RECHTS>>, <<2, None>> >>

\* texts of the Entries of side s, in list order
RECURSIVE TextsOf(_, _)
TextsOf(list, s) ==
    IF Len(list) = 0 THEN <<>>
    ELSE (IF Head(list).side = s THEN <<Head(list).text>> ELSE <<>>)
         \o TextsOf(Tail(list), s)

RECURSIVE Joined(_, _)
Joined(texts, sep) ==
    IF Len(texts) = 0 THEN ""
    ELSE IF Len(texts) = 1 THEN texts[1]
    ELSE Joined(SubSeq(texts, 1, Len(texts) - 1), sep) \o sep \o texts[Len(texts)]

PathoGroups ==
    LET l == TextsOf(pathological, LINKS)
        r == TextsOf(pathological, RECHTS)
        n == TextsOf(pathological, None)
    IN  SelectSeq(<< IF l = <<>> THEN "" ELSE "LINKS " \o Joined(l, ", "),
                     IF r = <<>> THEN "" ELSE "RECHTS " \o Joined(r, ", "),
                     IF n = <<>> THEN "" ELSE Joined(n, ", ") >>,
                  LAMBDA part : part # "")

NormalGroups ==
    LET l == TextsOf(normal, LINKS)
        r == TextsOf(normal, RECHTS)
        n == TextsOf(normal, None)
    IN  SelectSeq(<< IF l = <<>> THEN "" ELSE "LINKS (" \o Joined(l, ", ") \o ")",
                     IF r = <<>> THEN "" ELSE "RECHTS (" \o Joined(r, ", ") \o ")",
                     IF n = <<>> THEN "" ELSE Joined(n, ", ") >>,
                  LAMBDA part : part # "")

OutLines == Split(out, "\n")

\* C6: the first line of the summary is "Pathologisch: " and the parts of
\* the LINKS, RECHTS and unsided Pathological texts, in that order, joined
\* by one space; "Pathologisch: -" when Pathological is empty.
C6_PathologicalLine ==
    pc = "done" =>
        /\ OutLines[1] = "Pathologisch: " \o
               (IF PathoGroups = <<>> THEN "-" ELSE Joined(PathoGroups, " "))
        /\ pathological = <<>> => OutLines[1] = "Pathologisch: -"

\* all three groups present
C6_Witness ==
    /\ pc = "done"
    /\ Len(PathoGroups) = 3

TwoBilateralAB ==
    /\ Len(items) = 2
    /\ items[1].bilateral /\ items[2].bilateral
    /\ items[1].text = "A" /\ items[2].text = "B"
    /\ ~Affected(1) /\ ~Affected(2)

\* C7: the second line of the summary is "Normal: " and the parts
\* "LINKS (..)", "RECHTS (..)" and the unsided Normal texts, in that order,
\* joined by "; "; "Normal: -" when Normal is empty; two unaffected
\* bilateral items A and B give "LINKS (A, B); RECHTS (A, B)".
C7_NormalLine ==
    pc = "done" =>
        /\ Len(OutLines) = 2
        /\ OutLines[2] = "Normal: " \o
               (IF NormalGroups = <<>> THEN "-" ELSE Joined(NormalGroups, "; "))
        /\ normal = <<>> => OutLines[2] = "Normal: -"
        /\ TwoBilateralAB => OutLines[2] = "Normal: LINKS (A, B); RECHTS (A, B)"

\* the example of two unaffected bilateral items
C7_Witness == pc = "done" /\ TwoBilateralAB

\* the (organ, kuerzel) pairs of the rows of a file
PairsOfFile(f) ==
    LET rows == DictReader(f)
        Cell(row, key) == IF key \in DOMAIN row /\ row[key] # None THEN row[key] ELSE ""
    IN  {<<Strip(Cell(rows[n], HEADER_ORGAN)), Lower(Strip(Cell(rows[n], HEADER_KUERZEL)))>> :
            n \in {m \in 1..Len(rows) : /\ Strip(Cell(rows[m], HEADER_ORGAN)) # ""
                                        /\ Strip(Cell(rows[m], HEADER_KUERZEL)) # ""}}

\* C8: the menu pairs and the Items are those of the rows of the file at
\* csv_path.
C8_CatalogReadFromCsvPath ==
    /\ pc # "start" => {menu[i] : i \in 1..Len(menu)} = PairsOfFile(fs[csv_path])
    /\ pc \notin {"start", "ask_kuerzel", "error"} =>
          \A i \in 1..Len(items) :
              \E n \in 1..Len(fs[csv_path].lines) :
                  LET row == DictReader(fs[csv_path])[n]
                  IN  /\ ~RowRaises(row)
                      /\ items[i] = RowItem(row, use_active)

Missing(row, key) == key \notin DOMAIN row \/ row[key] = None

\* text that int() accepts: an optional sign and digits, spaces around
IntegerText(t) ==
    \E a, b \in 1..Len(t) :
        /\ a <= b
        /\ \A i \in 1..Len(t) : (i < a \/ i > b) => CharAt(t, i) \in {" ", "\t"}
        /\ \A i \in a..b : \/ IsDigit(CharAt(t, i))
                           \/ i = a /\ a < b /\ CharAt(t, i) \in {"+", "-"}

\* a row without kuerzel, item_order or text, or whose item_order is no integer
Faulty(row) ==
    \/ Missing(row, HEADER_KUERZEL)
    \/ Missing(row, HEADER_NUMMER)
    \/ Missing(row, HEADER_TEXT)
    \/ ~IntegerText(row[HEADER_NUMMER])

CatalogRows == DictReader(fs[OpenedPath(csv_path)])

HasFaultyRow == \E n \in 1..Len(CatalogRows) : Faulty(CatalogRows[n])

C10_AnswersStripped ==
    /\ \A k \in 1..Len(pathological) :
          LET t == pathological[k].text
          IN  /\ Len(t) > 0
              /\ ~IsSpace(CharAt(t, 1))
              /\ ~IsSpace(CharAt(t, Len(t)))
    /\ \A q \in 1..Len(transcript) :
          LET j == transcript[q].item
              s == transcript[q].side
          IN  Handled(j) /\ OnlySpaces(transcript[q].raw) =>
                  /\ \E k \in InNormal(j, s) : normal[k] = Entry(s, items[j].text)
                  /\ InPatho(j, s) = {}

\* one answer of blanks only, one answer with blanks around a text
C10_Witness ==
    /\ pc = "done"
    /\ \E q \in 1..Len(transcript) : transcript[q].raw = " "
    /\ \E q \in 1..Len(transcript) : transcript[q].raw = " x "
    /\ \E k \in 1..Len(pathological) : pathological[k].text = "x"
====
